---- MODULE Spec2Model ----
(***************************************************************************)
(* Model of atm-straddle.py: one run of the script per process, against    *)
(* the shared file straddle_results.csv.                                   *)
(*                                                                         *)
(* Money amounts (prices, strikes, bids, asks, mids, ranges) are integers  *)
(* counting half-cents, so that (bid + ask) / 2 of two whole-cent quotes   *)
(* is exact and round(x, 2) has something to round.  The columns the       *)
(* claims do not speak of (Symbol, Date, DTE, IV, Greeks, HV, Implied      *)
(* Move %, Earnings Date) are left out of the rows; the statements that    *)
(* compute them (lines 33-45, 87-93, 96, 101) neither write the file nor   *)
(* branch.                                                                 *)
(***************************************************************************)
EXTENDS Integers, Sequences, FiniteSets, TLC

\* ---------------------------------------------------------------- bounds
MaxRuns == 2          \* runs started in one behaviour
MaxOptions == 5       \* longest expiration list the provider returns
MaxPrice == 3         \* close prices are drawn from -2 .. MaxPrice
MaxStrike == 2        \* strikes are drawn from 0 .. MaxStrike
MaxQuote == 2         \* bids and asks are  2 * (-1 .. MaxQuote)  (whole cents)
MaxCalls == 3         \* longest calls collection (wide input family)
MaxPuts == 2          \* longest puts collection (wide input family)

\* ------------------------------------------------------- program constants
MaxExpirations == 4   \* stock.options[:4]

Procs == {1, 2}

Abs(x) == IF x < 0 THEN -x ELSE x
Last(s) == s[Len(s)]

IsPrefix(s, t) == Len(s) =< Len(t) /\ SubSeq(t, 1, Len(s)) = s

\* ------------------------------------------------------------ input sets
ClosePrices == -2 .. MaxPrice
Strikes == 0 .. MaxStrike
Quotes == {2 * q : q \in -1 .. MaxQuote}

\* stock.options as the provider returns it: dates 1 .. n, nearest first.
OptionLists == {[i \in 1 .. n |-> i] : n \in 0 .. MaxOptions}

Option(k, b, a) == [strike |-> k, bid |-> b, ask |-> a]

SeqsUpTo(S, n) == UNION {[1 .. m -> S] : m \in 0 .. n}

\* What the provider serves to a whole run: a close of one cent, and chains
\* of at most one call and one put, quoted in whole cents.  (The arithmetic
\* is checked over ClosePrices and WideChains, one expiration at a time.)
NarrowPrices == {2}

NarrowChains ==
    {[calls |-> c, puts |-> q] :
        c \in {<<>>, <<Option(1, 2, 6)>>},
        q \in {<<>>, <<Option(1, 0, 4)>>, <<Option(2, 0, 4)>>}}

\* ----------------------------------------------------------------- state
VARIABLES
    csv_file,       \* straddle_results.csv on disk: [exists, lines]
    runs,           \* number of runs started so far
    pc,             \* pc[p]: where process p stands in the script
    requests,       \* requests[p]: provider calls the run has made
    hist_data,      \* the closes of line 18: <<>> or one close
    current_price,  \* line 23
    options,        \* stock.options, as returned by the provider
    expirations,    \* line 27
    file_exists,    \* line 56
    handle,         \* the file object of line 58: "none", "open", "closed"
    buffer,         \* lines written to the file object and not yet on disk
    idx,            \* position of the for loop of line 63 in expirations
    opt_chain,      \* calls and puts of lines 66-67
    locals,         \* atm_strike .. high_range, lines 72-98
    stdout,         \* what the run printed (an uncaught traceback included)
    before          \* csv_file as it was when the run started

vars == <<csv_file, runs, pc, requests, hist_data, current_price, options, expirations,
          file_exists, handle, buffer, idx, opt_chain, locals, stdout, before>>

NoFile == [exists |-> FALSE, lines |-> <<>>]
NoChain == [calls |-> <<>>, puts |-> <<>>]
NoLocals ==
    [atm_strike |-> 0, atm_call |-> Option(0, 0, 0), atm_put |-> Option(0, 0, 0),
     call_mid |-> 0, put_mid |-> 0, straddle_price |-> 0,
     low_range |-> 0, high_range |-> 0]

Msg(m, e, k) == [msg |-> m, exp |-> e, strike |-> k]

HeaderLine ==
    [kind |-> "header", exp |-> 0, strike |-> 0, price |-> 0, call |-> 0,
     put |-> 0, straddle |-> 0, low |-> 0, high |-> 0]

Terminal == {"exited", "crashed", "done"}

Fresh(p) ==
    /\ requests' = [requests EXCEPT ![p] = {}]
    /\ hist_data' = [hist_data EXCEPT ![p] = <<>>]
    /\ current_price' = [current_price EXCEPT ![p] = 0]
    /\ options' = [options EXCEPT ![p] = <<>>]
    /\ expirations' = [expirations EXCEPT ![p] = <<>>]
    /\ file_exists' = [file_exists EXCEPT ![p] = FALSE]
    /\ handle' = [handle EXCEPT ![p] = "none"]
    /\ buffer' = [buffer EXCEPT ![p] = <<>>]
    /\ idx' = [idx EXCEPT ![p] = 0]
    /\ opt_chain' = [opt_chain EXCEPT ![p] = NoChain]
    /\ locals' = [locals EXCEPT ![p] = NoLocals]
    /\ stdout' = [stdout EXCEPT ![p] = <<>>]

Idle ==
    /\ runs = 0
    /\ pc = [p \in Procs |-> "idle"]
    /\ requests = [p \in Procs |-> {}]
    /\ hist_data = [p \in Procs |-> <<>>]
    /\ current_price = [p \in Procs |-> 0]
    /\ options = [p \in Procs |-> <<>>]
    /\ expirations = [p \in Procs |-> <<>>]
    /\ file_exists = [p \in Procs |-> FALSE]
    /\ handle = [p \in Procs |-> "none"]
    /\ buffer = [p \in Procs |-> <<>>]
    /\ idx = [p \in Procs |-> 0]
    /\ opt_chain = [p \in Procs |-> NoChain]
    /\ locals = [p \in Procs |-> NoLocals]
    /\ stdout = [p \in Procs |-> <<>>]

Init ==
    /\ Idle
    /\ csv_file = NoFile
    /\ before = [p \in Procs |-> NoFile]


\* ------------------------------------------------- the script's expressions

\* the slice forgotten: every expiration is taken
First4_all(opts) == opts

\* line 27: stock.options[:4]
First4(opts) == SubSeq(opts, 1, IF Len(opts) < MaxExpirations THEN Len(opts) ELSE MaxExpirations)

\* the exit() forgotten: the script goes on to line 27
AfterNoHistory_on == "options"

\* line 21: exit() after the "No historical data" message
AfterNoHistory == "exited"

\* the exit() forgotten: the script goes on to line 56
AfterNoOptions_on == "csv"

\* line 30: exit() after the "No option data" message
AfterNoOptions == "exited"

\* mode 'w' in place of 'a': the file is emptied
OpenAppend_w(f) == [exists |-> TRUE, lines |-> <<>>]

\* line 58: open(csv_file, mode='a') creates a missing file and keeps an
\* existing one as it is
OpenAppend(f) == [exists |-> TRUE, lines |-> f.lines]

\* the header written whatever the check found
HeaderNeeded_always(existed) == TRUE

\* line 60: if not file_exists
HeaderNeeded(existed) == ~existed

\* Leaving the with block of line 58 closes the file object: what it
\* buffered is appended to the file (O_APPEND) in one piece.
Flush(f, buf) == [exists |-> TRUE, lines |-> f.lines \o buf]

\* the last of several nearest strikes wins
Closer_last(x, best, price) == Abs(x - price) =< Abs(best - price)

\* line 72: min() replaces its candidate only by a strictly smaller key
Closer(x, best, price) == Abs(x - price) < Abs(best - price)

RECURSIVE MinScan(_, _, _, _)
MinScan(rows, price, i, best) ==
    IF i > Len(rows) THEN best
    ELSE MinScan(rows, price, i + 1,
                 IF Closer(rows[i].strike, best, price) THEN rows[i].strike ELSE best)

\* line 72: atm_strike = min(calls['strike'], key=lambda x: abs(x - current_price))
AtmStrike(calls, price) == MinScan(calls, price, 2, calls[1].strike)

\* the filter on the strike forgotten
RowsAt_any(rows, k) == rows

\* lines 74-75: calls[calls['strike'] == atm_strike]
RowsAt(rows, k) == SelectSeq(rows, LAMBDA r : r.strike = k)

\* line 77: atm_call_rows.empty or atm_put_rows.empty
NoAtmFound(call_rows, put_rows) == call_rows = <<>> \/ put_rows = <<>>

\* the division forgotten
Mid_sum(bid, ask) == bid + ask

\* lines 84-85: (bid + ask) / 2
Mid(bid, ask) == (bid + ask) \div 2

\* line 95
StraddlePrice(call_mid, put_mid) == call_mid + put_mid

\* line 97
LowRange(price, straddle) == price - straddle

\* line 98
HighRange(price, straddle) == price + straddle

\* lines 112-128: round(x, 2).  A whole number of cents is written as it is.
\* An odd number of half-cents is a decimal tie, which a binary double does
\* not hold exactly: round() goes to the neighbour its representation error
\* favours (round(0.015, 2) = 0.01, round(0.025, 2) = 0.03), so either.
Round2(x) == IF x % 2 = 0 THEN {x} ELSE {x - 1, x + 1}

\* lines 72-98: the values of one expiration
Straddle(chain, price) ==
    LET k == AtmStrike(chain.calls, price)
        c == RowsAt(chain.calls, k)[1]
        q == RowsAt(chain.puts, k)[1]
        cm == Mid(c.bid, c.ask)
        pm == Mid(q.bid, q.ask)
        sp == StraddlePrice(cm, pm)
    IN  [atm_strike |-> k, atm_call |-> c, atm_put |-> q,
         call_mid |-> cm, put_mid |-> pm, straddle_price |-> sp,
         low_range |-> LowRange(price, sp), high_range |-> HighRange(price, sp)]

\* lines 109-130: the rows writer.writerow may produce for one expiration
RowsFor(e, price, v) ==
    {[kind |-> "row", exp |-> e, strike |-> v.atm_strike, price |-> rp,
      call |-> rc, put |-> rq, straddle |-> rs, low |-> rl, high |-> rh] :
        rp \in Round2(price), rc \in Round2(v.call_mid), rq \in Round2(v.put_mid),
        rs \in Round2(v.straddle_price), rl \in Round2(v.low_range),
        rh \in Round2(v.high_range)}

\* --------------------------------------------------------------- actions

\* A run is started (lines 1-15).
StartRun(p) ==
    /\ pc[p] \in {"idle"} \cup Terminal
    /\ runs < MaxRuns
    /\ runs' = runs + 1
    /\ pc' = [pc EXCEPT ![p] = "history"]
    /\ before' = [before EXCEPT ![p] = csv_file]
    /\ Fresh(p)
    /\ UNCHANGED csv_file

\* lines 18-24
FetchHistory(p) ==
    /\ pc[p] = "history"
    /\ requests' = [requests EXCEPT ![p] = @ \cup {"history_1d"}]
    /\ \E h \in {<<>>} \cup {<<c>> : c \in NarrowPrices} :
        /\ hist_data' = [hist_data EXCEPT ![p] = h]
        /\ IF h = <<>>
           THEN /\ stdout' = [stdout EXCEPT ![p] = Append(@, Msg("no_history", 0, 0))]
                /\ pc' = [pc EXCEPT ![p] = AfterNoHistory]
                /\ UNCHANGED current_price
           ELSE /\ current_price' = [current_price EXCEPT ![p] = Last(h)]
                /\ stdout' = [stdout EXCEPT ![p] = Append(@, Msg("price", 0, 0))]
                /\ pc' = [pc EXCEPT ![p] = "options"]
    /\ UNCHANGED <<csv_file, runs, options, expirations, file_exists, handle,
                   buffer, idx, opt_chain, locals, before>>

\* lines 27-45
FetchOptions(p) ==
    /\ pc[p] = "options"
    /\ \E opts \in OptionLists :
        /\ options' = [options EXCEPT ![p] = opts]
        /\ expirations' = [expirations EXCEPT ![p] = First4(opts)]
        /\ IF First4(opts) = <<>>
           THEN /\ stdout' = [stdout EXCEPT ![p] = Append(@, Msg("no_options", 0, 0))]
                /\ requests' = [requests EXCEPT ![p] = @ \cup {"options"}]
                /\ pc' = [pc EXCEPT ![p] = AfterNoOptions]
           ELSE /\ requests' = [requests EXCEPT ![p] =
                                  @ \cup {"options", "history_1mo", "calendar"}]
                /\ pc' = [pc EXCEPT ![p] = "csv"]
                /\ UNCHANGED stdout
    /\ UNCHANGED <<csv_file, runs, hist_data, current_price, file_exists, handle,
                   buffer, idx, opt_chain, locals, before>>

\* line 56
CheckFile(p) ==
    /\ pc[p] = "csv"
    /\ file_exists' = [file_exists EXCEPT ![p] = csv_file.exists]
    /\ pc' = [pc EXCEPT ![p] = "open"]
    /\ UNCHANGED <<csv_file, runs, requests, hist_data, current_price, options, expirations,
                   handle, buffer, idx, opt_chain, locals, stdout, before>>

\* lines 58-59
OpenFile(p) ==
    /\ pc[p] = "open"
    /\ csv_file' = OpenAppend(csv_file)
    /\ handle' = [handle EXCEPT ![p] = "open"]
    /\ pc' = [pc EXCEPT ![p] = "header"]
    /\ UNCHANGED <<runs, requests, hist_data, current_price, options, expirations,
                   file_exists, buffer, idx, opt_chain, locals, stdout, before>>

\* lines 60-61, and the for loop of line 63 is entered
WriteHeader(p) ==
    /\ pc[p] = "header"
    /\ buffer' = [buffer EXCEPT ![p] =
                    IF HeaderNeeded(file_exists[p]) THEN Append(@, HeaderLine) ELSE @]
    /\ idx' = [idx EXCEPT ![p] = 1]
    /\ pc' = [pc EXCEPT ![p] = "loop"]
    /\ UNCHANGED <<csv_file, runs, requests, hist_data, current_price, options, expirations,
                   file_exists, handle, opt_chain, locals, stdout, before>>

\* lines 63-70: the chain of the next expiration is asked for; the request
\* raises, or it returns a chain
FetchChain(p) ==
    /\ pc[p] = "loop"
    /\ idx[p] =< Len(expirations[p])
    /\ requests' = [requests EXCEPT ![p] = @ \cup {"option_chain"}]
    /\ \/ /\ stdout' = [stdout EXCEPT ![p] =
                          Append(@, Msg("chain_error", expirations[p][idx[p]], 0))]
          /\ idx' = [idx EXCEPT ![p] = @ + 1]
          /\ UNCHANGED <<opt_chain, pc>>
       \/ /\ \E c \in NarrowChains : opt_chain' = [opt_chain EXCEPT ![p] = c]
          /\ pc' = [pc EXCEPT ![p] = "atm"]
          /\ UNCHANGED <<stdout, idx>>
    /\ UNCHANGED <<csv_file, runs, hist_data, current_price, options, expirations,
                   file_exists, handle, buffer, locals, before>>

\* line 72 on an empty calls collection: min() raises ValueError, which
\* nothing catches; the with block closes the file and the run ends in a
\* traceback.
RaiseOnEmptyCalls(p) ==
    /\ pc[p] = "atm"
    /\ opt_chain[p].calls = <<>>
    /\ csv_file' = Flush(csv_file, buffer[p])
    /\ buffer' = [buffer EXCEPT ![p] = <<>>]
    /\ handle' = [handle EXCEPT ![p] = "closed"]
    /\ stdout' = [stdout EXCEPT ![p] =
                    Append(@, Msg("traceback", expirations[p][idx[p]], 0))]
    /\ pc' = [pc EXCEPT ![p] = "crashed"]
    /\ UNCHANGED <<runs, requests, hist_data, current_price, options, expirations,
                   file_exists, idx, opt_chain, locals, before>>

\* lines 72-79
SkipExpiration(p) ==
    /\ pc[p] = "atm"
    /\ opt_chain[p].calls # <<>>
    /\ LET k == AtmStrike(opt_chain[p].calls, current_price[p])
       IN  /\ NoAtmFound(RowsAt(opt_chain[p].calls, k), RowsAt(opt_chain[p].puts, k))
           /\ locals' = [locals EXCEPT ![p].atm_strike = k]
           /\ stdout' = [stdout EXCEPT ![p] =
                           Append(@, Msg("no_atm", expirations[p][idx[p]], k))]
    /\ idx' = [idx EXCEPT ![p] = @ + 1]
    /\ pc' = [pc EXCEPT ![p] = "loop"]
    /\ UNCHANGED <<csv_file, runs, requests, hist_data, current_price, options, expirations,
                   file_exists, handle, buffer, opt_chain, before>>

\* lines 72-130
EmitRow(p) ==
    /\ pc[p] = "atm"
    /\ opt_chain[p].calls # <<>>
    /\ LET k == AtmStrike(opt_chain[p].calls, current_price[p])
       IN  /\ ~NoAtmFound(RowsAt(opt_chain[p].calls, k), RowsAt(opt_chain[p].puts, k))
           /\ locals' = [locals EXCEPT ![p] = Straddle(opt_chain[p], current_price[p])]
           /\ stdout' = [stdout EXCEPT ![p] =
                           Append(@, Msg("summary", expirations[p][idx[p]], k))]
           /\ \E row \in RowsFor(expirations[p][idx[p]], current_price[p], locals'[p]) :
                 buffer' = [buffer EXCEPT ![p] = Append(@, row)]
    /\ idx' = [idx EXCEPT ![p] = @ + 1]
    /\ pc' = [pc EXCEPT ![p] = "loop"]
    /\ UNCHANGED <<csv_file, runs, requests, hist_data, current_price, options, expirations,
                   file_exists, handle, opt_chain, before>>

\* the loop is over: the with block of line 58 closes the file, line 132
Finish(p) ==
    /\ pc[p] = "loop"
    /\ idx[p] > Len(expirations[p])
    /\ csv_file' = Flush(csv_file, buffer[p])
    /\ buffer' = [buffer EXCEPT ![p] = <<>>]
    /\ handle' = [handle EXCEPT ![p] = "closed"]
    /\ stdout' = [stdout EXCEPT ![p] = Append(@, Msg("saved", 0, 0))]
    /\ pc' = [pc EXCEPT ![p] = "done"]
    /\ UNCHANGED <<runs, requests, hist_data, current_price, options, expirations,
                   file_exists, idx, opt_chain, locals, before>>

Run(p) ==
    \/ StartRun(p)
    \/ FetchHistory(p)
    \/ FetchOptions(p)
    \/ CheckFile(p)
    \/ OpenFile(p)
    \/ WriteHeader(p)
    \/ FetchChain(p)
    \/ RaiseOnEmptyCalls(p)
    \/ SkipExpiration(p)
    \/ EmitRow(p)
    \/ Finish(p)

\* Runs one after the other: a single process, started again when it ended.
Next == Run(1)

Spec == Init /\ [][Next]_vars


\* ------------------------------------------- runs over any earlier content

\* A line some earlier writer left in the file.
EarlierRow ==
    [kind |-> "row", exp |-> 9, strike |-> 1, price |-> 2, call |-> 4,
     put |-> 2, straddle |-> 6, low |-> -4, high |-> 8]

PriorFiles ==
    {NoFile} \cup
    {[exists |-> TRUE, lines |-> l] :
        l \in {<<>>, <<HeaderLine>>, <<EarlierRow>>, <<HeaderLine, EarlierRow>>,
               <<EarlierRow, HeaderLine>>}}

InitPrior ==
    /\ Idle
    /\ csv_file \in PriorFiles
    /\ before = [p \in Procs |-> NoFile]

SpecPrior == InitPrior /\ [][Next]_vars

\* ------------------------------------- one expiration, over wide inputs

\* Calls and puts of any strikes, in any order, repeated strikes included;
\* the quotes tell the records of a collection apart.
StrikeChains ==
    {[calls |-> [i \in DOMAIN c |-> Option(c[i], 2 * i, 2 * i + 4)],
      puts |-> [i \in DOMAIN q |-> Option(q[i], 2 * i - 2, 2 * i)]] :
        c \in SeqsUpTo(Strikes, MaxCalls), q \in SeqsUpTo(Strikes, MaxPuts)}

\* One call and one put at the same strike, of any quotes.
QuoteChains ==
    {[calls |-> <<Option(1, cb, ca)>>, puts |-> <<Option(1, pb, pa)>>] :
        cb \in Quotes, ca \in Quotes, pb \in Quotes, pa \in Quotes}

WideChains == StrikeChains \cup QuoteChains

\* Process 1 is in its first run on a missing file and has just been served
\* the chain of its only expiration (line 67).
InitCalc ==
    /\ runs = 1
    /\ csv_file = [exists |-> TRUE, lines |-> <<>>]
    /\ before = [p \in Procs |-> NoFile]
    /\ pc = [p \in Procs |-> IF p = 1 THEN "atm" ELSE "idle"]
    /\ requests = [p \in Procs |->
                     IF p = 1 THEN {"history_1d", "options", "history_1mo",
                                    "calendar", "option_chain"}
                     ELSE {}]
    /\ \E c \in ClosePrices :
          /\ hist_data = [p \in Procs |-> IF p = 1 THEN <<c>> ELSE <<>>]
          /\ current_price = [p \in Procs |-> IF p = 1 THEN c ELSE 0]
    /\ options = [p \in Procs |-> IF p = 1 THEN <<1>> ELSE <<>>]
    /\ expirations = [p \in Procs |-> IF p = 1 THEN <<1>> ELSE <<>>]
    /\ file_exists = [p \in Procs |-> FALSE]
    /\ handle = [p \in Procs |-> IF p = 1 THEN "open" ELSE "none"]
    /\ buffer = [p \in Procs |-> IF p = 1 THEN <<HeaderLine>> ELSE <<>>]
    /\ idx = [p \in Procs |-> IF p = 1 THEN 1 ELSE 0]
    /\ \E c \in WideChains :
          opt_chain = [p \in Procs |-> IF p = 1 THEN c ELSE NoChain]
    /\ locals = [p \in Procs |-> NoLocals]
    /\ stdout = [p \in Procs |-> IF p = 1 THEN <<Msg("price", 0, 0)>> ELSE <<>>]

NextCalc ==
    \/ RaiseOnEmptyCalls(1)
    \/ SkipExpiration(1)
    \/ EmitRow(1)
    \/ Finish(1)

SpecCalc == InitCalc /\ [][NextCalc]_vars

\* -------------------------------------------- two runs at the same time

\* Both processes have passed lines 18-45 and stand before line 56; the
\* file does not exist.
InitConc ==
    /\ runs = 2
    /\ csv_file = NoFile
    /\ before = [p \in Procs |-> NoFile]
    /\ pc = [p \in Procs |-> "csv"]
    /\ requests = [p \in Procs |-> {"history_1d", "options", "history_1mo", "calendar"}]
    /\ hist_data = [p \in Procs |-> <<2>>]
    /\ current_price = [p \in Procs |-> 2]
    /\ options \in [Procs -> {o \in OptionLists : Len(o) \in {1, 2}}]
    /\ expirations = options
    /\ file_exists = [p \in Procs |-> FALSE]
    /\ handle = [p \in Procs |-> "none"]
    /\ buffer = [p \in Procs |-> <<>>]
    /\ idx = [p \in Procs |-> 0]
    /\ opt_chain = [p \in Procs |-> NoChain]
    /\ locals = [p \in Procs |-> NoLocals]
    /\ stdout = [p \in Procs |-> <<Msg("price", 0, 0)>>]

NextConc ==
    \E p \in Procs :
        \/ CheckFile(p)
        \/ OpenFile(p)
        \/ WriteHeader(p)
        \/ FetchChain(p)
        \/ RaiseOnEmptyCalls(p)
        \/ SkipExpiration(p)
        \/ EmitRow(p)
        \/ Finish(p)

SpecConc == InitConc /\ [][NextConc]_vars


\* ================================================================ claims

HeaderCount(lines) == Cardinality({i \in DOMAIN lines : lines[i].kind = "header"})

\* The lines the run of p has put into the file since it started.
Added(p) == SubSeq(csv_file.lines, Len(before[p].lines) + 1, Len(csv_file.lines))

Ended(p) == pc[p] \in Terminal

Printed(p, m) == \E i \in DOMAIN stdout[p] : stdout[p][i].msg = m

\* ---- C1
\* C1: in runs made one after the other from a missing file, between runs and
\* whenever no run holds the file open, the file, if it exists, has exactly
\* one header line and it is the first line; and a run that has ended added
\* a header exactly when it had found the file missing at line 56 and had
\* gone on to open it.
C1_OneHeaderFirst ==
    /\ (handle[1] # "open" /\ csv_file.exists) =>
          /\ csv_file.lines # <<>>
          /\ csv_file.lines[1] = HeaderLine
          /\ HeaderCount(csv_file.lines) = 1
    /\ Ended(1) =>
          HeaderCount(csv_file.lines) - HeaderCount(before[1].lines)
              = (IF handle[1] = "closed" /\ ~file_exists[1] THEN 1 ELSE 0)

\* A second run found the file of the first, added rows and no header.
C1_Witness ==
    /\ pc[1] = "done"
    /\ file_exists[1]
    /\ before[1].lines # <<>>
    /\ Len(Added(1)) >= 2
    /\ Len(before[1].lines) >= 2

\* ---- C2
\* C2: a run whose 1-day history came back empty prints the "No historical
\* data" message and nothing else and has stopped: the history request is the
\* only request it made (no expirations, no option chain), it never opened
\* the file, the file is as it was when the run started, and "Results saved"
\* is not printed.
C2_NoHistoryStops ==
    \A p \in Procs :
        (pc[p] \notin {"idle", "history"} /\ hist_data[p] = <<>>) =>
            /\ pc[p] = "exited"
            /\ stdout[p] = <<Msg("no_history", 0, 0)>>
            /\ requests[p] = {"history_1d"}
            /\ handle[p] = "none"
            /\ csv_file = before[p]
            /\ ~Printed(p, "saved")

\* A run without history, after a run that left a file with rows.
C2_Witness ==
    /\ pc[1] = "exited"
    /\ hist_data[1] = <<>>
    /\ csv_file.exists
    /\ Len(csv_file.lines) >= 2

\* ---- C3
\* C3: a run that has history but was given an empty list of expirations
\* prints the "No option data available." message and has stopped: no option
\* chain was requested, it never opened the file, the file is as it was when
\* the run started, and "Results saved" is not printed.
C3_NoOptionsStops ==
    \A p \in Procs :
        (pc[p] \notin {"idle", "history", "options"} /\ hist_data[p] # <<>>
             /\ options[p] = <<>>) =>
            /\ pc[p] = "exited"
            /\ stdout[p] = <<Msg("price", 0, 0), Msg("no_options", 0, 0)>>
            /\ "option_chain" \notin requests[p]
            /\ handle[p] = "none"
            /\ csv_file = before[p]
            /\ ~Printed(p, "saved")

\* A run without expirations, after a run that left a file with rows.
C3_Witness ==
    /\ pc[1] = "exited"
    /\ hist_data[1] # <<>>
    /\ options[1] = <<>>
    /\ csv_file.exists
    /\ Len(csv_file.lines) >= 2

\* ---- C4
HasStrike(rows, k) == \E i \in DOMAIN rows : rows[i].strike = k

\* The loop has just dealt with a chain whose calls were not empty: the chain
\* and the strike are still those of that expiration.
JustProcessed(p) ==
    /\ pc[p] = "loop"
    /\ idx[p] > 1
    /\ Last(stdout[p]).msg \in {"no_atm", "summary"}

\* C4: when the expiration just processed has no call record or no put
\* record at the selected strike, the run has printed the message naming
\* that expiration and that strike, and no row for that expiration is among
\* the lines it has written.
C4_MissingAtmSkipped ==
    \A p \in Procs :
        (/\ JustProcessed(p)
         /\ \/ ~HasStrike(opt_chain[p].calls, locals[p].atm_strike)
            \/ ~HasStrike(opt_chain[p].puts, locals[p].atm_strike)) =>
            /\ Last(stdout[p]) =
                   Msg("no_atm", expirations[p][idx[p] - 1], locals[p].atm_strike)
            /\ \A i \in DOMAIN buffer[p] :
                   buffer[p][i].exp # expirations[p][idx[p] - 1]

\* The puts are not empty but hold no record at the selected strike, and
\* an earlier expiration of the run got its row.
C4_Witness ==
    /\ JustProcessed(1)
    /\ opt_chain[1].puts # <<>>
    /\ ~HasStrike(opt_chain[1].puts, locals[1].atm_strike)
    /\ \E i \in DOMAIN buffer[1] : buffer[1][i].kind = "row"

\* ---- C5
\* C5: a run that has closed the file has gone through every one of its
\* expirations and ended normally, whatever happened on each of them.
C5_EveryExpirationProcessed ==
    \A p \in Procs :
        handle[p] = "closed" =>
            /\ pc[p] = "done"
            /\ idx[p] = Len(expirations[p]) + 1


\* ---- C6
RowsOf(lines) == SelectSeq(lines, LAMBDA l : l.kind = "row")

Summaries(p) == SelectSeq(stdout[p], LAMBDA m : m.msg = "summary")

\* The place of expiration e in the provider's list.
PlaceOf(p, e) == CHOOSE j \in DOMAIN options[p] : options[p][j] = e

\* C6: when a run has closed the file, the rows it added are, one for one and
\* in the same order, the expirations it computed (those whose summary it
\* printed); there are at most four of them, each is one of the first four
\* expirations of the provider's list, and they stand in the file in the
\* order of that list, none twice.
C6_RowsFollowExpirations ==
    \A p \in Procs :
        handle[p] = "closed" =>
            LET rows == RowsOf(Added(p))
                done == Summaries(p)
            IN  /\ Len(rows) =< 4
                /\ Len(rows) = Len(done)
                /\ \A i \in DOMAIN rows :
                      /\ rows[i].exp = done[i].exp
                      /\ \E j \in DOMAIN options[p] :
                            j =< 4 /\ options[p][j] = rows[i].exp
                /\ \A i \in DOMAIN rows : \A j \in DOMAIN rows :
                      i < j => PlaceOf(p, rows[i].exp) < PlaceOf(p, rows[j].exp)

\* The provider listed five expirations; the run computed the first four and
\* added four rows.
C6_Witness ==
    /\ pc[1] = "done"
    /\ Len(options[1]) > 4
    /\ Len(RowsOf(Added(1))) = 4

\* ---- C7
\* C7: from any earlier content of the file, at every moment of a run and
\* after it, whether the run stopped early, wrote no row or wrote rows, a
\* file that existed when the run started still exists and the lines it held
\* then are, unchanged and in place, the first lines of the file.
C7_AppendOnly ==
    \A p \in Procs :
        pc[p] # "idle" =>
            /\ before[p].exists => csv_file.exists
            /\ IsPrefix(before[p].lines, csv_file.lines)

\* A run added rows behind a file that held a row and no header.
C7_Witness ==
    /\ pc[1] = "done"
    /\ before[1].lines = <<EarlierRow>>
    /\ Len(csv_file.lines) > 1

\* ---- C8
FirstAt(rows, k) ==
    rows[CHOOSE i \in DOMAIN rows :
            /\ rows[i].strike = k
            /\ \A j \in DOMAIN rows : rows[j].strike = k => i =< j]

\* The loop has just written the row of an expiration.
JustEmitted(p) == JustProcessed(p) /\ Last(stdout[p]).msg = "summary"

Cents(r, x) == r % 2 = 0 /\ Abs(r - x) =< 1

\* C8: for the row just written, with c and q the first call and put record
\* at the selected strike: call_mid is half of c's bid plus ask, put_mid half
\* of q's, straddle_price their sum, low_range and high_range the current
\* price less and plus straddle_price, so that the two add up to twice the
\* current price; and the row holds these amounts rounded to the cent.
C8_StraddleArithmetic ==
    \A p \in Procs :
        JustEmitted(p) =>
            LET v == locals[p]
                c == FirstAt(opt_chain[p].calls, v.atm_strike)
                q == FirstAt(opt_chain[p].puts, v.atm_strike)
                row == Last(buffer[p])
            IN  /\ 2 * v.call_mid = c.bid + c.ask
                /\ 2 * v.put_mid = q.bid + q.ask
                /\ v.straddle_price = v.call_mid + v.put_mid
                /\ v.low_range = current_price[p] - v.straddle_price
                /\ v.high_range = current_price[p] + v.straddle_price
                /\ v.low_range + v.high_range = 2 * current_price[p]
                /\ Cents(row.call, v.call_mid)
                /\ Cents(row.put, v.put_mid)
                /\ Cents(row.straddle, v.straddle_price)
                /\ Cents(row.low, v.low_range)
                /\ Cents(row.high, v.high_range)
                /\ Cents(row.price, current_price[p])

\* A row from a negative bid and a current price below zero, with a
\* straddle price that is not zero.
C8_Witness ==
    /\ JustEmitted(1)
    /\ locals[1].atm_call.bid < 0
    /\ current_price[1] < 0
    /\ locals[1].straddle_price # 0
    /\ locals[1].call_mid # locals[1].put_mid

\* ---- C9
Distance(calls, price, i) == Abs(calls[i].strike - price)

Nearest(calls, price) ==
    {i \in DOMAIN calls :
        \A j \in DOMAIN calls : Distance(calls, price, i) =< Distance(calls, price, j)}

\* C9: the strike selected for the expiration just processed is the strike
\* of the first call record, in the provider's order, among those whose
\* strike is nearest to the current price; it is so whatever the puts are.
C9_AtmIsFirstNearest ==
    \A p \in Procs :
        JustProcessed(p) =>
            LET calls == opt_chain[p].calls
                near == Nearest(calls, current_price[p])
                first == CHOOSE i \in near : \A j \in near : i =< j
            IN  locals[p].atm_strike = calls[first].strike

\* Two different strikes are equally near, and puts were served.
C9_Witness ==
    /\ JustProcessed(1)
    /\ opt_chain[1].puts # <<>>
    /\ \E i \in Nearest(opt_chain[1].calls, current_price[1]) :
       \E j \in Nearest(opt_chain[1].calls, current_price[1]) :
           opt_chain[1].calls[i].strike # opt_chain[1].calls[j].strike

\* ---- C10
\* C10: when two runs started at the same time on a missing file have both
\* ended normally (each printed "Results saved"), the file holds exactly one
\* header line.
C10_OneHeaderConcurrent ==
    (\A p \in Procs : pc[p] = "done") => HeaderCount(csv_file.lines) = 1

====
